---- MODULE Spec2Model ----
(***************************************************************************)
(* A model of the custom promise type executor (src/src/executor.rs): the  *)
(* header exchange, the request loop with its lazy initialisation, the     *)
(* attribute checks, the check/apply split of evaluate requests, the log   *)
(* threshold and the outcome projections of src/src/protocol.rs.           *)
(*                                                                         *)
(* One run of Executor::run_type is one behaviour.  The input is a         *)
(* sequence of lines fixed in the initial state; each action is either the *)
(* header exchange or one whole iteration of the request loop.  The        *)
(* results of the promise's hooks are chosen by the environment.           *)
(***************************************************************************)
EXTENDS Integers, Sequences, FiniteSets, TLC

VARIABLES
    input,                      \* the lines of the input stream (Lines<B>)
    pos,                        \* number of input lines consumed so far
    pc,                         \* "start", "loop", "done" (Ok), "error" (Err), "panic"
    initialized,                \* run_type's local `initialized`
    max_level,                  \* MAX_LOG_LEVEL_FILTER
    written,                    \* everything written, in order, tagged by its stream
    calls,                      \* the promise hooks called so far, in order
    ignore_unknown_attributes,  \* Executor.ignore_unknown_attributes
    required,                   \* promise.required_attributes()
    optional,                   \* promise.optional_attributes()
    header                      \* run_type's local `header`, a Header value

vars == <<input, pos, pc, initialized, max_level, written, calls,
          ignore_unknown_attributes, required, optional, header>>

-----------------------------------------------------------------------------
(* Bounds of the model *)

\* Largest number of request records after the header in an input.
MaxRequests == 2

\* Largest number of uses of log! in a behaviour of the log gate alone.
MaxLogLines == 2

\* Largest number of characters of a name and of a version of a header.
MaxHeaderLen == 2

-----------------------------------------------------------------------------
(* Log levels: src/src/log.rs *)

\* enum Level / enum LevelFilter, in declaration order; the discriminant of a
\* level is its index here minus one.
LevelNames == <<"critical", "error", "warning", "notice", "info", "verbose", "debug">>

\* `level as usize`
LevelAsUsize(name) == (CHOOSE i \in 1..Len(LevelNames) : LevelNames[i] = name) - 1

IsLevelName(s) == \E i \in 1..Len(LevelNames) : LevelNames[i] = s

\* the comparison of lt in the place of le
LevelLe_Strict(lvl, filter) == LevelAsUsize(lvl) < filter

\* impl PartialOrd<LevelFilter> for Level: le
LevelLe(lvl, filter) == LevelAsUsize(lvl) <= filter

\* The threshold is left at critical whatever the level asked for
set_max_level_Critical(level) == 0

\* set_max_level: the value stored in MAX_LOG_LEVEL_FILTER
set_max_level(level) == LevelAsUsize(level)

\* The entry println! adds to the process's standard output.
LogLine(lvl, msg) == [stream |-> "stdout", kind |-> "log", level |-> lvl, msg |-> msg]

\* macro log!: the line is printed only if lvl <= max_level()
log(threshold, lvl, msg) ==
    IF LevelLe(lvl, threshold) THEN <<LogLine(lvl, msg)>> ELSE <<>>

error(threshold, msg) == log(threshold, "error", msg)

info(threshold, msg) == log(threshold, "info", msg)

-----------------------------------------------------------------------------
(* Attribute types: src/src/attribute.rs *)

\* A JSON value is [kind, val]; kind is one of Null, Bool, PosInt, NegInt,
\* BigUInt (an integer above i64::MAX), Float, String, Array, Object.
\* Path::is_absolute on the strings of the model
IsAbsolutePath(s) == s \in {"/tmp/d"}

as_bool(value) == value.kind = "Bool"
as_str(value) == value.kind = "String"
as_i64(value) == value.kind \in {"PosInt", "NegInt"}
as_f64(value) == value.kind \in {"PosInt", "NegInt", "BigUInt", "Float"}
as_array(value) == value.kind = "Array"
as_object(value) == value.kind = "Object"

AttrType(tag) == [tag |-> tag, variants |-> {}]
StringEnum(variants) == [tag |-> "StringEnum", variants |-> variants]

\* AttributeType::has_type
has_type(type, value) ==
    CASE type.tag = "Bool" -> as_bool(value)
      [] type.tag = "String" -> as_str(value)
      [] type.tag = "Integer" -> as_i64(value)
      [] type.tag = "Float" -> as_f64(value)
      [] type.tag = "List" -> as_array(value)
      [] type.tag = "Data" -> as_object(value)
      [] type.tag = "AbsolutePath" -> as_str(value) /\ IsAbsolutePath(value.val)
      [] type.tag = "StringEnum" -> as_str(value) /\ value.val \in type.variants

-----------------------------------------------------------------------------
(* Executor::check_attributes: src/src/executor.rs *)

Declared(req, opt) == req \o opt

\* the condition of the first loop: a required attribute is absent
MissingRequired(attributes, req) ==
    {i \in 1..Len(req) : req[i][1] \notin DOMAIN attributes}

\* the condition of the second loop: a declared attribute is present with a
\* value that has not its type
TypeMismatches(attributes, req, opt) ==
    {i \in 1..Len(Declared(req, opt)) :
        /\ Declared(req, opt)[i][1] \in DOMAIN attributes
        /\ ~has_type(Declared(req, opt)[i][2], attributes[Declared(req, opt)[i][1]])}

\* the condition of the third loop: a key that is not declared
Unexpected(ignore, attributes, req, opt) ==
    IF ignore THEN {}
    ELSE {key \in DOMAIN attributes :
            \A i \in 1..Len(Declared(req, opt)) : Declared(req, opt)[i][1] # key}

\* In each of the three loops the error is built by anyhow!(...) as an
\* expression statement and dropped: it is never returned, and the function
\* ends with Ok(()) whatever the three conditions are.
check_attributes(ignore, attributes, req, opt) ==
    LET missing == MissingRequired(attributes, req)
        mismatch == TypeMismatches(attributes, req, opt)
        unexpected == Unexpected(ignore, attributes, req, opt)
    IN  "Ok"

-----------------------------------------------------------------------------
(* Results and outcomes: src/src/protocol.rs *)

\* The reason a promise gives with a result.
Reason == "reason"

NoCall == [tag |-> "NoCall", reason |-> ""]

ValidateResults ==
    {[tag |-> "Valid", reason |-> ""],
     [tag |-> "Invalid", reason |-> Reason],
     [tag |-> "Error", reason |-> Reason]}

CheckResults ==
    {[tag |-> "Kept", reason |-> ""],
     [tag |-> "AlwaysApply", reason |-> ""],
     [tag |-> "NotKept", reason |-> Reason],
     [tag |-> "Error", reason |-> Reason]}

ApplyResults ==
    {[tag |-> "Kept", reason |-> ""],
     [tag |-> "Repaired", reason |-> Reason],
     [tag |-> "NotKept", reason |-> Reason],
     [tag |-> "Error", reason |-> Reason],
     [tag |-> "AuditOnly", reason |-> ""]}

\* What the check and the apply of the trait return, if a promise type does
\* not define its own
DefaultCheck == [tag |-> "AlwaysApply", reason |-> ""]

DefaultApply == [tag |-> "AuditOnly", reason |-> ""]

ProtocolResults ==
    {[tag |-> "Success", reason |-> ""],
     [tag |-> "Failure", reason |-> Reason],
     [tag |-> "Error", reason |-> Reason]}

\* ValidateResult::outcome with Error reported as invalid
ValidateResult_outcome_ErrorAsInvalid(r, threshold) ==
    CASE r.tag = "Valid" -> [outcome |-> "valid", logs |-> <<>>]
      [] r.tag = "Invalid" -> [outcome |-> "invalid", logs |-> error(threshold, r.reason)]
      [] r.tag = "Error" -> [outcome |-> "invalid", logs |-> error(threshold, r.reason)]

\* ValidateResult::outcome: the outcome and the lines it logs
ValidateResult_outcome(r, threshold) ==
    CASE r.tag = "Valid" -> [outcome |-> "valid", logs |-> <<>>]
      [] r.tag = "Invalid" -> [outcome |-> "invalid", logs |-> error(threshold, r.reason)]
      [] r.tag = "Error" -> [outcome |-> "error", logs |-> error(threshold, r.reason)]

\* ApplyResult::outcome with AuditOnly reported as kept
ApplyResult_outcome_AuditAsKept(r, threshold) ==
    CASE r.tag = "Kept" -> [outcome |-> "kept", logs |-> <<>>]
      [] r.tag = "Repaired" -> [outcome |-> "repaired", logs |-> info(threshold, r.reason)]
      [] r.tag = "NotKept" -> [outcome |-> "not_kept", logs |-> error(threshold, r.reason)]
      [] r.tag = "Error" -> [outcome |-> "error", logs |-> error(threshold, r.reason)]
      [] r.tag = "AuditOnly" ->
            [outcome |-> "kept",
             logs |-> error(threshold, "Should not be applied, audit only promise")]

\* ApplyResult::outcome with the outcomes of Kept and Repaired exchanged
ApplyResult_outcome_Swapped(r, threshold) ==
    CASE r.tag = "Kept" -> [outcome |-> "repaired", logs |-> <<>>]
      [] r.tag = "Repaired" -> [outcome |-> "kept", logs |-> info(threshold, r.reason)]
      [] r.tag = "NotKept" -> [outcome |-> "not_kept", logs |-> error(threshold, r.reason)]
      [] r.tag = "Error" -> [outcome |-> "error", logs |-> error(threshold, r.reason)]
      [] r.tag = "AuditOnly" ->
            [outcome |-> "error",
             logs |-> error(threshold, "Should not be applied, audit only promise")]

\* ApplyResult::outcome
ApplyResult_outcome(r, threshold) ==
    CASE r.tag = "Kept" -> [outcome |-> "kept", logs |-> <<>>]
      [] r.tag = "Repaired" -> [outcome |-> "repaired", logs |-> info(threshold, r.reason)]
      [] r.tag = "NotKept" -> [outcome |-> "not_kept", logs |-> error(threshold, r.reason)]
      [] r.tag = "Error" -> [outcome |-> "error", logs |-> error(threshold, r.reason)]
      [] r.tag = "AuditOnly" ->
            [outcome |-> "error",
             logs |-> error(threshold, "Should not be applied, audit only promise")]

\* CheckResult::outcome with the two levels of NotKept exchanged
CheckResult_outcome_LevelsSwapped(r, is_check_only, threshold) ==
    CASE r.tag = "Kept" -> [outcome |-> "kept", logs |-> <<>>]
      [] r.tag = "AlwaysApply" ->
            [outcome |-> "not_kept",
             logs |-> info(threshold, "This promise needs to be applied")]
      [] r.tag = "NotKept" ->
            [outcome |-> "not_kept",
             logs |-> IF is_check_only THEN info(threshold, r.reason)
                      ELSE error(threshold, r.reason)]
      [] r.tag = "Error" -> [outcome |-> "error", logs |-> error(threshold, r.reason)]

\* CheckResult::outcome
CheckResult_outcome(r, is_check_only, threshold) ==
    CASE r.tag = "Kept" -> [outcome |-> "kept", logs |-> <<>>]
      [] r.tag = "AlwaysApply" ->
            [outcome |-> "not_kept",
             logs |-> info(threshold, "This promise needs to be applied")]
      [] r.tag = "NotKept" ->
            [outcome |-> "not_kept",
             logs |-> IF is_check_only THEN error(threshold, r.reason)
                      ELSE info(threshold, r.reason)]
      [] r.tag = "Error" -> [outcome |-> "error", logs |-> error(threshold, r.reason)]

\* ProtocolResult::outcome with Failure reported as error
ProtocolResult_outcome_FailureAsError(r, threshold) ==
    CASE r.tag = "Success" -> [outcome |-> "success", logs |-> <<>>]
      [] r.tag = "Failure" -> [outcome |-> "error", logs |-> error(threshold, r.reason)]
      [] r.tag = "Error" -> [outcome |-> "error", logs |-> error(threshold, r.reason)]

\* ProtocolResult::outcome
ProtocolResult_outcome(r, threshold) ==
    CASE r.tag = "Success" -> [outcome |-> "success", logs |-> <<>>]
      [] r.tag = "Failure" -> [outcome |-> "failure", logs |-> error(threshold, r.reason)]
      [] r.tag = "Error" -> [outcome |-> "error", logs |-> error(threshold, r.reason)]

\* the response to a validate request with an empty attribute map
ValidateResponse_NoAttributes(request, result) ==
    [operation |-> "validate_promise", promiser |-> request.promiser,
     result |-> result, attributes |-> <<>>]

\* ValidateResponse::new
ValidateResponse(request, result) ==
    [operation |-> "validate_promise", promiser |-> request.promiser,
     result |-> result, attributes |-> request.attributes]

\* the response to an evaluate request carries the operation of validate
EvaluateResponse_AsValidate(request, result) ==
    [operation |-> "validate_promise", promiser |-> request.promiser,
     result |-> result, attributes |-> request.attributes]

\* EvaluateResponse::new
EvaluateResponse(request, result) ==
    [operation |-> "evaluate_promise", promiser |-> request.promiser,
     result |-> result, attributes |-> request.attributes]

\* TerminateResponse::new
TerminateResponse(result) == [operation |-> "terminate", result |-> result]

-----------------------------------------------------------------------------
(* Input lines and their parsing *)

\* A line is empty, a header line, a line holding a JSON object, or any
\* other text.  A JSON line carries the fields the request types read:
\* `fields` is the set of those present with a value of the right JSON type.
Blank == [kind |-> "blank"]

Junk == [kind |-> "junk"]

HeaderLine(name, version) == [kind |-> "header", name |-> name, version |-> version]

JsonLine(operation, fields, log_level, promiser, attributes) ==
    [kind |-> "json", operation |-> operation, fields |-> fields,
     log_level |-> log_level, promiser |-> promiser, attributes |-> attributes]

\* every line passes for an empty one
is_empty_Always(line) == TRUE

\* String::is_empty
is_empty(line) == line.kind = "blank"

\* serde_json::from_str::<ValidateRequest>(&line).is_ok()
IsValidateRequest(line) ==
    /\ line.kind = "json"
    /\ line.operation = "validate_promise"
    /\ {"log_level", "promiser", "attributes"} \subseteq line.fields
    /\ IsLevelName(line.log_level)

\* serde_json::from_str::<EvaluateRequest>(&line).is_ok()
IsEvaluateRequest(line) ==
    /\ line.kind = "json"
    /\ line.operation = "evaluate_promise"
    /\ {"log_level", "promiser", "attributes"} \subseteq line.fields
    /\ IsLevelName(line.log_level)

\* serde_json::from_str::<TerminateRequest>(&line).is_ok(): the other fields
\* of the object are ignored
IsTerminateRequest(line) ==
    /\ line.kind = "json"
    /\ line.operation = "terminate"

\* read_line with the end of the input taken as the end of the run
read_line_EndIsDone(ls, p) ==
    IF p + 1 > Len(ls) THEN [status |-> "done", next |-> p]
    ELSE IF p + 2 > Len(ls) THEN [status |-> "done", next |-> p + 1]
    ELSE IF ~is_empty(ls[p + 2]) THEN [status |-> "error", next |-> p + 2]
    ELSE [status |-> "ok", next |-> p + 2, line |-> ls[p + 1]]

\* Executor::read_line at position p of the lines ls: the line and the line
\* after it are taken; a missing line panics (unwrap of None), a line after
\* it that is not empty is an error.
read_line(ls, p) ==
    IF p + 1 > Len(ls) THEN [status |-> "panic", next |-> p]
    ELSE IF p + 2 > Len(ls) THEN [status |-> "panic", next |-> p + 1]
    ELSE IF ~is_empty(ls[p + 2]) THEN [status |-> "error", next |-> p + 2]
    ELSE [status |-> "ok", next |-> p + 2, line |-> ls[p + 1]]

\* the payload with one newline after it
write_line_OneNewline(payload) ==
    [stream |-> "output", kind |-> "record", payload |-> payload, newlines |-> "\n",
     flushed |-> TRUE]

\* Executor::write_line: the payload, then two newlines, written to the
\* output, which is then flushed
write_line(payload) ==
    [stream |-> "output", kind |-> "record", payload |-> payload, newlines |-> "\n\n",
     flushed |-> TRUE]

\* dbg!(line): the line read, printed on the standard error
dbg(line) == [stream |-> "stderr", kind |-> "dbg", line |-> line]

\* Executor::write_json
write_json(data) == write_line(data)

-----------------------------------------------------------------------------
(* The header: the module `header` of the crate *)

\* The protocol version this executor speaks.
ProtocolVersion == "v1"

\* Header::from_str(line).is_ok()
Header_from_str_ok(line) == line.kind = "header"

\* every header that parses is taken as compatible
Header_compatibility_ok_Any(line) == TRUE

\* The Header that Header::from_str gives for a line it accepts
Header_from_str(line) == [name |-> line.name, version |-> line.version]

\* The value of `header` before a header is parsed
NoHeader == [name |-> "", version |-> ""]

\* Header::compatibility().is_ok()
Header_compatibility_ok(line) == line.version = ProtocolVersion

\* PromiseType::name and PromiseType::version of the promise that is run
PromiseName == "directory_module"

PromiseVersion == "0.0.1"

\* Header::new(name, version).to_string()
my_header == [kind |-> "header", name |-> PromiseName, version |-> PromiseVersion]

-----------------------------------------------------------------------------
(* Executor::run_type: src/src/executor.rs *)

\* A call of a hook of the promise: the hook, the position of the input
\* after the record during which it is called, its result, and the log
\* threshold in force when it is called.
Call(hook, at, r, threshold) ==
    [hook |-> hook, at |-> at, result |-> r.tag, threshold |-> threshold]

\* init run in every iteration
NeedsInit_Always(is_initialized) == TRUE

\* `if !initialized`: whether this iteration runs promise.init()
NeedsInit(is_initialized) == ~is_initialized

\* The results promise.init() may give in this iteration; NoCall when the
\* promise is initialized already.
InitChoices == IF NeedsInit(initialized) THEN ProtocolResults ELSE {NoCall}

\* only the Failure arm returns Err
InitAborts_FailureOnly(ir) == ir.tag = "Failure"

\* The arms of `match promise.init()` that return Err
InitAborts(ir) == ir.tag \in {"Failure", "Error"}

InitCalls(ir, at) ==
    IF ir = NoCall THEN <<>> ELSE <<Call("init", at, ir, max_level)>>

\* check-only only if action_policy is "warn"
IsCheckOnly_WarnOnly(attributes) ==
    /\ "action_policy" \in DOMAIN attributes
    /\ attributes["action_policy"] = [kind |-> "String", val |-> "warn"]

\* `req.attributes.get("action_policy").is_some()`
IsCheckOnly(attributes) == "action_policy" \in DOMAIN attributes

\* apply whatever check reports
NeedsApply_IgnoresResult(is_check_only, result) == ~is_check_only

\* apply whatever the mode
NeedsApply_IgnoresMode(is_check_only, result) == result # "kept"

\* `!is_check_only && result != EvaluateOutcome::Kept`
NeedsApply(is_check_only, result) == ~is_check_only /\ result # "kept"

\* the loop goes on after the terminate response
AfterTerminate_Continue == "loop"

\* a line that is no request is skipped
AfterUnknown_Skip == "loop"

\* What follows a line that is no request: `return Err(...)`
AfterUnknown == "error"

\* What follows the write of the terminate response: `return Ok(())`
AfterTerminate == "done"

\* The header exchange: the agent's header is read, parsed and checked, and
\* the header of this promise type is written.
Handshake ==
    /\ pc = "start"
    /\ LET rd == read_line(input, pos)
       IN  /\ pos' = rd.next
           /\ IF rd.status # "ok"
              THEN pc' = rd.status /\ written' = written
              ELSE IF ~Header_from_str_ok(rd.line)
              THEN pc' = "error" /\ written' = written
              ELSE IF ~Header_compatibility_ok(rd.line)
              THEN pc' = "error" /\ written' = written
              ELSE /\ written' = Append(written, write_line(my_header))
                   /\ pc' = "loop"
           /\ header' = IF rd.status = "ok" /\ Header_from_str_ok(rd.line)
                        THEN Header_from_str(rd.line) ELSE header
    /\ UNCHANGED <<input, initialized, max_level, calls,
                   ignore_unknown_attributes, required, optional>>

\* An iteration whose read_line fails: the input ends (panic) or the line
\* after the record is not empty (Err).
ReadFail ==
    /\ pc = "loop"
    /\ LET rd == read_line(input, pos)
       IN  /\ rd.status # "ok"
           /\ pos' = rd.next
           /\ pc' = rd.status
    /\ UNCHANGED <<header, input, initialized, max_level, written, calls,
                   ignore_unknown_attributes, required, optional>>

\* An iteration in which promise.init() reports Failure or Error.
InitFail ==
    /\ pc = "loop"
    /\ LET rd == read_line(input, pos)
       IN  /\ rd.status = "ok"
           /\ \E ir \in InitChoices :
                /\ InitAborts(ir)
                /\ calls' = calls \o InitCalls(ir, rd.next)
           /\ written' = Append(written, dbg(rd.line))
           /\ pos' = rd.next
           /\ pc' = "error"
    /\ UNCHANGED <<header, input, initialized, max_level,
                   ignore_unknown_attributes, required, optional>>

\* An iteration that handles a validate_promise request.
HandleValidate ==
    /\ pc = "loop"
    /\ LET rd == read_line(input, pos)
       IN  /\ rd.status = "ok"
           /\ IsValidateRequest(rd.line)
           /\ pos' = rd.next
           /\ initialized' = TRUE
           /\ max_level' = set_max_level(rd.line.log_level)
           /\ \E ir \in InitChoices, vr \in ValidateResults :
                LET req == rd.line
                    lvl == set_max_level(req.log_level)
                    o == ValidateResult_outcome(vr, lvl)
                IN  /\ ~InitAborts(ir)
                    /\ IF check_attributes(ignore_unknown_attributes, req.attributes,
                                           required, optional) # "Ok"
                       THEN /\ calls' = calls \o InitCalls(ir, rd.next)
                            /\ written' = Append(written, dbg(req))
                            /\ pc' = "error"
                       ELSE /\ calls' = calls \o InitCalls(ir, rd.next)
                                        \o <<Call("validate", rd.next, vr, lvl)>>
                            /\ written' = Append(written, dbg(req)) \o o.logs
                                  \o <<write_json(ValidateResponse(req, o.outcome))>>
                            /\ pc' = "loop"
    /\ UNCHANGED <<header, input, ignore_unknown_attributes, required, optional>>

\* An iteration that handles an evaluate_promise request.
HandleEvaluate ==
    /\ pc = "loop"
    /\ LET rd == read_line(input, pos)
       IN  /\ rd.status = "ok"
           /\ ~IsValidateRequest(rd.line)
           /\ IsEvaluateRequest(rd.line)
           /\ pos' = rd.next
           /\ initialized' = TRUE
           /\ max_level' = set_max_level(rd.line.log_level)
           /\ \E ir \in InitChoices, cr \in CheckResults :
                LET req == rd.line
                    lvl == set_max_level(req.log_level)
                    is_check_only == IsCheckOnly(req.attributes)
                    c == CheckResult_outcome(cr, is_check_only, lvl)
                    applies == NeedsApply(is_check_only, c.outcome)
                IN  /\ ~InitAborts(ir)
                    /\ \E ar \in IF applies THEN ApplyResults ELSE {NoCall} :
                         LET a == IF applies THEN ApplyResult_outcome(ar, lvl)
                                  ELSE [outcome |-> c.outcome, logs |-> <<>>]
                         IN  /\ calls' = calls \o InitCalls(ir, rd.next)
                                    \o <<Call("check", rd.next, cr, lvl)>>
                                    \o (IF applies THEN <<Call("apply", rd.next, ar, lvl)>>
                                        ELSE <<>>)
                             /\ written' = Append(written, dbg(req)) \o c.logs \o a.logs
                                    \o <<write_json(EvaluateResponse(req, a.outcome))>>
           /\ pc' = "loop"
    /\ UNCHANGED <<header, input, ignore_unknown_attributes, required, optional>>

\* An iteration that handles a terminate request.
HandleTerminate ==
    /\ pc = "loop"
    /\ LET rd == read_line(input, pos)
       IN  /\ rd.status = "ok"
           /\ ~IsValidateRequest(rd.line)
           /\ ~IsEvaluateRequest(rd.line)
           /\ IsTerminateRequest(rd.line)
           /\ pos' = rd.next
           /\ initialized' = TRUE
           /\ \E ir \in InitChoices, tr \in ProtocolResults :
                LET o == ProtocolResult_outcome(tr, max_level)
                IN  /\ ~InitAborts(ir)
                    /\ calls' = calls \o InitCalls(ir, rd.next)
                                \o <<Call("terminate", rd.next, tr, max_level)>>
                    /\ written' = Append(written, dbg(rd.line)) \o o.logs
                                \o <<write_json(TerminateResponse(o.outcome))>>
           /\ pc' = AfterTerminate
    /\ UNCHANGED <<header, input, max_level, ignore_unknown_attributes, required, optional>>

\* An iteration whose line is none of the three requests.
HandleUnknown ==
    /\ pc = "loop"
    /\ LET rd == read_line(input, pos)
       IN  /\ rd.status = "ok"
           /\ ~IsValidateRequest(rd.line)
           /\ ~IsEvaluateRequest(rd.line)
           /\ ~IsTerminateRequest(rd.line)
           /\ pos' = rd.next
           /\ initialized' = TRUE
           /\ \E ir \in InitChoices :
                /\ ~InitAborts(ir)
                /\ calls' = calls \o InitCalls(ir, rd.next)
           /\ written' = Append(written, dbg(rd.line))
           /\ pc' = AfterUnknown
    /\ UNCHANGED <<header, input, max_level, ignore_unknown_attributes,
                   required, optional>>

Next ==
    \/ Handshake
    \/ ReadFail
    \/ InitFail
    \/ HandleValidate
    \/ HandleEvaluate
    \/ HandleTerminate
    \/ HandleUnknown

-----------------------------------------------------------------------------
(* Inputs and initial states *)

Str(s) == [kind |-> "String", val |-> s]

\* The schema of examples/directory.rs
DirectoryRequired == << <<"state", StringEnum({"present", "absent"})>> >>

DirectoryOptional == <<>>

AttrsPresent == "state" :> Str("present")

AttrsAudit == ("state" :> Str("present")) @@ ("action_policy" :> Str("warn"))

Promiser == "/tmp/d"

RequestFields == {"log_level", "promiser", "attributes"}

TerminateLine == JsonLine("terminate", {}, "", "", <<>>)

\* The request lines with a level of `levels` and an attribute map of `maps`,
\* the terminate request and a line that is no request.
RequestLines(levels, maps) ==
    {JsonLine(op, RequestFields, l, Promiser, m) :
        op \in {"validate_promise", "evaluate_promise"}, l \in levels, m \in maps}
    \cup {TerminateLine, Junk}

AgentHeaders == {HeaderLine("cf-agent", "v1"), HeaderLine("cf-agent", "v0"), Junk}

SeqsUpTo(S, n) == UNION {[1..k -> S] : k \in 0..n}

\* The records, each followed by an empty line; with tail "eof" the input
\* ends before the last empty line, with tail "junk" that line is not empty.
Framed(records, tail) ==
    LET n == Len(records)
        all == [i \in 1..(2 * n) |->
                  IF i % 2 = 1 THEN records[(i + 1) \div 2]
                  ELSE IF i = 2 * n /\ tail = "junk" THEN Junk ELSE Blank]
    IN  IF tail = "eof" THEN SubSeq(all, 1, 2 * n - 1) ELSE all

Tails == {"ok", "eof", "junk"}

\* The initial states: the input is a header line and at most n lines of one
\* of the configurations, each a promise's schema with request lines for it.
InitWith(configs, n, tails, ignores) ==
    /\ \E c \in configs :
          /\ \E h \in AgentHeaders, rs \in SeqsUpTo(c.lines, n), t \in tails :
                input = Framed(<<h>> \o rs, t)
          /\ required = c.required
          /\ optional = c.optional
    /\ pos = 0
    /\ pc = "start"
    /\ initialized = FALSE
    /\ max_level = 0
    /\ written = <<>>
    /\ calls = <<>>
    /\ header = NoHeader
    /\ ignore_unknown_attributes \in ignores

\* The directory promise with requests that satisfy its schema, with and
\* without the action_policy attribute.
DirectoryConfig ==
    [lines |-> RequestLines({"info"}, {AttrsPresent, AttrsAudit}),
     required |-> DirectoryRequired, optional |-> DirectoryOptional]

Init == InitWith({DirectoryConfig}, MaxRequests, Tails, BOOLEAN)

Spec == Init /\ [][Next]_vars

-----------------------------------------------------------------------------
(* Initial states for the attribute checks: every attribute type against    *)
(* every kind of JSON value, as a required and as an optional attribute,    *)
(* and maps with a missing or an undeclared attribute.                      *)

AttributeTypes ==
    {AttrType(t) : t \in {"Bool", "String", "Integer", "Float", "List", "Data",
                          "AbsolutePath"}}
    \cup {StringEnum({"present", "absent"})}

JsonValues ==
    {[kind |-> k, val |-> ""] :
        k \in {"Null", "Bool", "PosInt", "NegInt", "BigUInt", "Float", "Array", "Object"}}
    \cup {Str(s) : s \in {"present", "partial", "/tmp/d", "rel/d"}}

AttrConfig(req, opt, attributes) ==
    [lines |-> RequestLines({"info"}, {attributes}), required |-> req, optional |-> opt]

AttrConfigs ==
    {AttrConfig(<< <<"state", t>> >>, <<>>, "state" :> v) :
        t \in AttributeTypes, v \in JsonValues}
    \cup {AttrConfig(DirectoryRequired, << <<"mode", t>> >>,
                     AttrsPresent @@ ("mode" :> v)) :
            t \in AttributeTypes, v \in JsonValues}
    \cup {AttrConfig(DirectoryRequired, << <<"mode", AttrType("Integer")>> >>, m) :
            m \in {<<>>, AttrsPresent, AttrsAudit, "mode" :> [kind |-> "PosInt", val |-> ""],
                   AttrsPresent @@ ("extra" :> Str("present"))}}

InitAttr == InitWith(AttrConfigs, MaxRequests, {"ok"}, BOOLEAN)

SpecAttr == InitAttr /\ [][Next]_vars

-----------------------------------------------------------------------------
(* Initial states for the shapes of a record: the three requests, a second  *)
(* promiser, and lines that parse as none of the three request types.       *)

OtherPromiser == "rel/d"

\* Lines that are no ValidateRequest, EvaluateRequest or TerminateRequest:
\* text that is no JSON, an empty line, a header line, a request without
\* log_level, a request with a level LevelFilter does not have, and an
\* object with another operation.
UnknownLines ==
    {Junk, Blank, HeaderLine("cf-agent", "v1"),
     JsonLine("validate_promise", {"promiser", "attributes"}, "", Promiser, AttrsPresent),
     JsonLine("evaluate_promise", RequestFields, "loud", Promiser, AttrsPresent),
     JsonLine("restart", RequestFields, "info", Promiser, AttrsPresent)}

\* The requests: validate and evaluate for two promisers, with and without
\* action_policy, the terminate request alone and with fields it ignores.
KnownLines ==
    {JsonLine(op, RequestFields, "info", pm[1], pm[2]) :
        op \in {"validate_promise", "evaluate_promise"},
        pm \in {<<Promiser, AttrsPresent>>, <<OtherPromiser, AttrsAudit>>}}
    \cup {TerminateLine,
          JsonLine("terminate", RequestFields, "info", Promiser, AttrsPresent)}

ShapesConfig ==
    [lines |-> KnownLines \cup UnknownLines,
     required |-> DirectoryRequired, optional |-> DirectoryOptional]

InitShapes == InitWith({ShapesConfig}, MaxRequests, {"ok"}, BOOLEAN)

SpecShapes == InitShapes /\ [][Next]_vars

-----------------------------------------------------------------------------
(* Initial states for the log threshold: requests that ask for different    *)
(* levels, with and without action_policy.                                  *)

RequestLevels == {"error", "info"}

\* Requests that lower the threshold to critical
CriticalLines ==
    {JsonLine("validate_promise", RequestFields, "critical", Promiser, AttrsPresent),
     JsonLine("evaluate_promise", RequestFields, "critical", Promiser, AttrsAudit)}

LogConfig ==
    [lines |-> RequestLines(RequestLevels, {AttrsPresent, AttrsAudit}) \cup CriticalLines,
     required |-> DirectoryRequired, optional |-> DirectoryOptional]

InitLog == InitWith({LogConfig}, MaxRequests, {"ok"}, {FALSE})

SpecLog == InitLog /\ [][Next]_vars

-----------------------------------------------------------------------------
(* The log gate alone: set_max_level and log! used in any order, with every *)
(* level and every threshold.                                               *)

\* A use of log!: the level of the message and the threshold it meets
LogAttempt(lvl, threshold) ==
    [hook |-> "log", at |-> 0, result |-> lvl, threshold |-> threshold]

\* set_max_level(level), for any LevelFilter
SetMaxLevel ==
    /\ pc = "gate"
    /\ \E l \in {LevelNames[i] : i \in DOMAIN LevelNames} :
          max_level' = set_max_level(l)
    /\ UNCHANGED <<header, input, pos, pc, initialized, written, calls,
                   ignore_unknown_attributes, required, optional>>

\* log!(lvl, ...), for any Level
Emit ==
    /\ pc = "gate"
    /\ Len(calls) < MaxLogLines
    /\ \E lvl \in {LevelNames[i] : i \in DOMAIN LevelNames} :
          /\ written' = written \o log(max_level, lvl, Reason)
          /\ calls' = Append(calls, LogAttempt(lvl, max_level))
    /\ UNCHANGED <<header, input, pos, pc, initialized, max_level,
                   ignore_unknown_attributes, required, optional>>

\* MAX_LOG_LEVEL_FILTER starts at 0; nothing is read and no promise is run
InitGate ==
    /\ input = <<>>
    /\ pos = 0
    /\ pc = "gate"
    /\ initialized = FALSE
    /\ max_level = 0
    /\ written = <<>>
    /\ calls = <<>>
    /\ ignore_unknown_attributes = FALSE
    /\ required = <<>>
    /\ optional = <<>>
    /\ header = NoHeader

NextGate == SetMaxLevel \/ Emit

SpecGate == InitGate /\ [][NextGate]_vars

-----------------------------------------------------------------------------
(* The text of a header: a Header is made, written as a line, and the line  *)
(* is parsed.  A text is a sequence of characters.                          *)

Space == " "

NameChars == {"m", Space}

VersionChars == {"1", Space}

\* the version written before the name
Header_to_string_Swapped(h) == h.version \o <<Space>> \o h.name

\* Header::to_string: the form <name> <version>
Header_to_string(h) == h.name \o <<Space>> \o h.version

\* The headers a line of the form <name> <version> can be read as: one for
\* each space of the line taken as the separator
Header_parse(line) ==
    {[name |-> SubSeq(line, 1, i - 1), version |-> SubSeq(line, i + 1, Len(line))] :
        i \in {j \in DOMAIN line : line[j] = Space}}

\* header.to_string(), sent as a line
HeaderToString ==
    /\ pc = "new"
    /\ input' = <<Header_to_string(header)>>
    /\ pc' = "encoded"
    /\ UNCHANGED <<header, pos, initialized, max_level, written, calls,
                   ignore_unknown_attributes, required, optional>>

\* Header::from_str(line): a ParseError if the line has not the form
HeaderFromStr ==
    /\ pc = "encoded"
    /\ IF Header_parse(input[1]) = {}
       THEN pc' = "parse_error" /\ header' = header
       ELSE /\ \E h \in Header_parse(input[1]) : header' = h
            /\ pc' = "decoded"
    /\ UNCHANGED <<input, pos, initialized, max_level, written, calls,
                   ignore_unknown_attributes, required, optional>>

\* Header::new(name, version), for every name and version of the bound
InitHeader ==
    /\ header \in {[name |-> n, version |-> v] :
                     n \in SeqsUpTo(NameChars, MaxHeaderLen),
                     v \in SeqsUpTo(VersionChars, MaxHeaderLen)}
    /\ pc = "new"
    /\ input = <<>>
    /\ pos = 0
    /\ initialized = FALSE
    /\ max_level = 0
    /\ written = <<>>
    /\ calls = <<>>
    /\ ignore_unknown_attributes = FALSE
    /\ required = <<>>
    /\ optional = <<>>

NextHeader == HeaderToString \/ HeaderFromStr

SpecHeader == InitHeader /\ [][NextHeader]_vars

-----------------------------------------------------------------------------
(* Initial states for action_policy: requests without the attribute and     *)
(* with it, at the values warn, fix and null.                               *)

PolicyValues == {Str("warn"), Str("fix"), [kind |-> "Null", val |-> ""]}

PolicyConfig ==
    [lines |-> RequestLines({"info"},
                            {AttrsPresent}
                            \cup {AttrsPresent @@ ("action_policy" :> v) : v \in PolicyValues}),
     required |-> DirectoryRequired, optional |-> DirectoryOptional]

InitPolicy == InitWith({PolicyConfig}, MaxRequests, {"ok"}, {FALSE})

SpecPolicy == InitPolicy /\ [][Next]_vars

-----------------------------------------------------------------------------
(* Executor::run: the run over the standard streams of the process *)

\* The stream of the process an entry of `written` goes to when run_type is
\* called by Executor::run: the output is the standard output, to which
\* println! writes as well.
StreamUnderRun(e) == IF e.stream \in {"output", "stdout"} THEN "stdout" ELSE "stderr"

\* What the peer reads from the executor in such a run, in order
StdoutUnderRun == SelectSeq(written, LAMBDA e : StreamUnderRun(e) = "stdout")

-----------------------------------------------------------------------------
(* What one step adds, and the histories *)

\* The hooks called in the step
NewCalls == SubSeq(calls', Len(calls) + 1, Len(calls'))

\* The records the step writes to the output
NewRecords ==
    SelectSeq(SubSeq(written', Len(written) + 1, Len(written')),
              LAMBDA e : e.stream = "output")

HooksIn(cs, hook) == SelectSeq(cs, LAMBDA c : c.hook = hook)

\* The records written to the output so far
Output == SelectSeq(written, LAMBDA e : e.stream = "output")

\* The input line of the record during which the call c was made
RequestOf(c) == input[c.at - 1]

\* The step is an iteration that reads an evaluate request and handles it
EvaluateStep ==
    /\ pc = "loop"
    /\ read_line(input, pos).status = "ok"
    /\ IsEvaluateRequest(read_line(input, pos).line)
    /\ pc' = "loop"

\* The step is an iteration that reads a validate or an evaluate request
RequestStep ==
    /\ pc = "loop"
    /\ read_line(input, pos).status = "ok"
    /\ \/ IsValidateRequest(read_line(input, pos).line)
       \/ IsEvaluateRequest(read_line(input, pos).line)

CurrentAttributes == read_line(input, pos).line.attributes

\* The step writes exactly one record, the response `result` to `operation`
Responds(operation, result) ==
    /\ Len(NewRecords) = 1
    /\ NewRecords[1].payload.operation = operation
    /\ NewRecords[1].payload.result = result

\* The step calls no hook of the promise other than init, writes no record
\* and ends the run with an error
Rejected ==
    /\ \A i \in DOMAIN NewCalls : NewCalls[i].hook = "init"
    /\ NewRecords = <<>>
    /\ pc' = "error"

\* The projections as the specification states them
CheckProjection(tag) ==
    CASE tag = "Kept" -> "kept"
      [] tag = "AlwaysApply" -> "not_kept"
      [] tag = "NotKept" -> "not_kept"
      [] tag = "Error" -> "error"

ApplyProjection(tag) ==
    CASE tag = "Kept" -> "kept"
      [] tag = "Repaired" -> "repaired"
      [] tag = "NotKept" -> "not_kept"
      [] tag = "Error" -> "error"
      [] tag = "AuditOnly" -> "error"

-----------------------------------------------------------------------------
(* C1..C3: check, apply and the result of an evaluate request *)

\* C1: in every handled evaluate request, check-only or not, whose check
\* reports Kept, apply is not called and the one response written has the
\* result kept.
C1_KeptSkipsApply ==
    [][(/\ EvaluateStep
        /\ \E i \in DOMAIN NewCalls :
              NewCalls[i].hook = "check" /\ NewCalls[i].result = "Kept")
       => /\ HooksIn(NewCalls, "apply") = <<>>
          /\ Responds("evaluate_promise", "kept")]_vars

\* A run in which check reported Kept for a check-only request and for a
\* request that is not check-only, and both were answered kept.
C1_Witness ==
    /\ \E i, j \in DOMAIN calls :
          /\ calls[i].hook = "check" /\ calls[i].result = "Kept"
          /\ IsCheckOnly(RequestOf(calls[i]).attributes)
          /\ calls[j].hook = "check" /\ calls[j].result = "Kept"
          /\ ~IsCheckOnly(RequestOf(calls[j]).attributes)
    /\ Len(Output) = 3
    /\ Output[2].payload.result = "kept"
    /\ Output[3].payload.result = "kept"

\* C2: in every handled evaluate request that is check-only, check is called
\* once, apply is not called, and the response carries the projection of the
\* check result (NotKept gives not_kept).
C2_AuditNeverApplies ==
    [][(EvaluateStep /\ IsCheckOnly(CurrentAttributes))
       => /\ Len(HooksIn(NewCalls, "check")) = 1
          /\ HooksIn(NewCalls, "apply") = <<>>
          /\ Responds("evaluate_promise",
                      CheckProjection(HooksIn(NewCalls, "check")[1].result))]_vars

\* A check-only request whose check reported NotKept was answered not_kept.
C2_Witness ==
    /\ \E i \in DOMAIN calls :
          /\ calls[i].hook = "check" /\ calls[i].result = "NotKept"
          /\ IsCheckOnly(RequestOf(calls[i]).attributes)
          /\ i = Len(calls)
    /\ Output[Len(Output)].payload.result = "not_kept"

\* C3: in every handled evaluate request that is not check-only and whose
\* check reports AlwaysApply or NotKept, apply is called exactly once, after
\* check, and the response carries the projection of the apply result.
C3_DriftApplies ==
    [][(/\ EvaluateStep
        /\ ~IsCheckOnly(CurrentAttributes)
        /\ \E i \in DOMAIN NewCalls :
              /\ NewCalls[i].hook = "check"
              /\ NewCalls[i].result \in {"AlwaysApply", "NotKept"})
       => /\ Len(HooksIn(NewCalls, "check")) = 1
          /\ Len(HooksIn(NewCalls, "apply")) = 1
          /\ \E i, j \in DOMAIN NewCalls :
                i < j /\ NewCalls[i].hook = "check" /\ NewCalls[j].hook = "apply"
          /\ Responds("evaluate_promise",
                      ApplyProjection(HooksIn(NewCalls, "apply")[1].result))]_vars

\* A request that is not check-only, whose check reported NotKept and whose
\* apply reported Repaired, was answered repaired.
C3_Witness ==
    /\ Len(calls) >= 2
    /\ calls[Len(calls) - 1].hook = "check"
    /\ calls[Len(calls) - 1].result = "NotKept"
    /\ calls[Len(calls)].hook = "apply"
    /\ calls[Len(calls)].result = "Repaired"
    /\ ~IsCheckOnly(RequestOf(calls[Len(calls)]).attributes)
    /\ Output[Len(Output)].payload.result = "repaired"

-----------------------------------------------------------------------------
(* C4..C7: the attribute checks *)

\* C4: a validate or evaluate request whose attribute map lacks a required
\* attribute has none of validate, check and apply called, no response
\* written, and ends the run with an error.
C4_MissingRequiredRejected ==
    [][(RequestStep /\ MissingRequired(CurrentAttributes, required) # {})
       => Rejected]_vars

\* C5: a validate or evaluate request in which a declared attribute is present
\* with a value that has not its type has no hook called for it and ends the
\* run with an error.
C5_TypeMismatchRejected ==
    [][(RequestStep /\ TypeMismatches(CurrentAttributes, required, optional) # {})
       => Rejected]_vars

\* C6: without ignore_unknown_attributes a request with an undeclared attribute
\* is rejected before any hook is called; with it, the same request is
\* dispatched when its attributes are otherwise right and init succeeds.
C6_UnknownAttributeRejected ==
    [][(RequestStep /\ Unexpected(FALSE, CurrentAttributes, required, optional) # {})
       => IF ~ignore_unknown_attributes THEN Rejected
          ELSE (/\ MissingRequired(CurrentAttributes, required) = {}
                /\ TypeMismatches(CurrentAttributes, required, optional) = {}
                /\ \A i \in DOMAIN NewCalls : NewCalls[i].result \notin {"Failure", "Error"}
                      \/ NewCalls[i].hook # "init")
               => Len(NewRecords) = 1]_vars

\* C7: an evaluate request whose attributes violate the schema ends the run
\* before check or apply is called and has no response, as a validate request
\* does.
C7_EvaluateValidated ==
    [][(/\ pc = "loop"
        /\ read_line(input, pos).status = "ok"
        /\ IsEvaluateRequest(read_line(input, pos).line)
        /\ \/ MissingRequired(CurrentAttributes, required) # {}
           \/ TypeMismatches(CurrentAttributes, required, optional) # {}
           \/ Unexpected(ignore_unknown_attributes, CurrentAttributes,
                         required, optional) # {})
       => Rejected]_vars

-----------------------------------------------------------------------------
(* C8..C10: init and terminate *)

InitCallCount == Len(HooksIn(calls, "init"))

\* The header exchange is done and the record after the header has been read
FirstRecordReceived ==
    /\ pc # "start"
    /\ Len(Output) >= 1
    /\ pos >= 4
    /\ read_line(input, 2).status = "ok"

\* C8: init is called at most once; once the first record after the header is
\* received, whatever it is, init has been called, as the first hook and
\* during that record; every other hook call comes after an init that
\* returned Success; before that record is received no hook is called.
C8_InitOnceAndFirst ==
    /\ InitCallCount <= 1
    /\ FirstRecordReceived
          => /\ InitCallCount = 1
             /\ calls[1].hook = "init"
             /\ calls[1].at = 4
    /\ \A i \in DOMAIN calls :
          calls[i].hook # "init"
             => \E j \in 1..(i - 1) :
                   calls[j].hook = "init" /\ calls[j].result = "Success"
    /\ ~FirstRecordReceived => calls = <<>>

\* Two records were handled after the header, the first a terminate-free
\* request, with one init call before the other hooks.
C8_Witness ==
    /\ pos = 6
    /\ InitCallCount = 1
    /\ Len(calls) >= 3
    /\ calls[2].at = 4
    /\ calls[Len(calls)].at = 6

\* C9: after init reports Failure or Error the run has ended with an error,
\* no other hook has been called and the header is the only record written.
C9_InitFailureAborts ==
    \A i \in DOMAIN calls :
        (calls[i].hook = "init" /\ calls[i].result \in {"Failure", "Error"})
           => /\ pc = "error"
              /\ calls = <<calls[i]>>
              /\ Output = <<write_line(my_header)>>
              /\ \A k \in DOMAIN written : written[k].kind # "log"

\* init reported Error on the first record, and more records follow it.
C9_Witness ==
    /\ calls # <<>>
    /\ calls[1].hook = "init"
    /\ calls[1].result = "Error"
    /\ pos < Len(input)

Terminated == HooksIn(calls, "terminate") # <<>>

\* C10: once the terminate hook has been called and its response written,
\* no line is read, no hook is called and nothing is written; terminate is
\* called at most once in a run.
C10_TerminateEndsLoop ==
    [][/\ Terminated => (pos' = pos /\ calls' = calls /\ written' = written)
       /\ Len(HooksIn(calls', "terminate")) <= 1
       /\ HooksIn(NewCalls, "terminate") # <<>>
             => /\ Responds("terminate", NewRecords[1].payload.result)
                /\ NewCalls[Len(NewCalls)].hook = "terminate"]_vars

\* The run has returned Ok after a terminate request, with records left
\* unread in the input.
C10_Witness ==
    /\ pc = "done"
    /\ Terminated
    /\ pos + 2 <= Len(input)
    /\ Output[Len(Output)].payload.operation = "terminate"

-----------------------------------------------------------------------------
(* C11: the end of the run on a terminate request *)

ProtocolProjection(tag) ==
    CASE tag = "Success" -> "success"
      [] tag = "Failure" -> "failure"
      [] tag = "Error" -> "error"

\* C11: a step that calls the terminate hook writes exactly one record, the
\* terminate response carrying success, failure or error for a hook result of
\* Success, Failure or Error, and in all three cases run_type returns Ok.
C11_TerminateAlwaysSucceeds ==
    [][HooksIn(NewCalls, "terminate") # <<>>
          => /\ Responds("terminate",
                         ProtocolProjection(NewCalls[Len(NewCalls)].result))
             /\ pc' = "done"]_vars

\* The run has returned Ok after a terminate hook that returned Failure, and
\* the last record of the output reports failure.
C11_Witness ==
    /\ pc = "done"
    /\ calls # <<>>
    /\ calls[Len(calls)].hook = "terminate"
    /\ calls[Len(calls)].result = "Failure"
    /\ Output[Len(Output)].payload = TerminateResponse("failure")

-----------------------------------------------------------------------------
(* C12: a record that is no request *)

\* The step is an iteration that reads a record which is none of the three
\* requests
UnknownStep ==
    /\ pc = "loop"
    /\ read_line(input, pos).status = "ok"
    /\ ~IsValidateRequest(read_line(input, pos).line)
    /\ ~IsEvaluateRequest(read_line(input, pos).line)
    /\ ~IsTerminateRequest(read_line(input, pos).line)

\* C12: an iteration that reads a record which is none of the three requests
\* ends the run with an error, writes no record and calls none of validate,
\* check, apply and terminate; once the run has ended with an error no line
\* is read, no hook is called and nothing is written.
C12_UnknownRecordAborts ==
    [][/\ UnknownStep => (Rejected /\ pos' = pos + 2)
       /\ pc = "error" => (pos' = pos /\ calls' = calls /\ written' = written)]_vars

\* The run has ended with an error on a JSON object whose operation is not
\* one of the three, read as the first record after the handshake, with a
\* record left unread after it and only the header written.
C12_Witness ==
    /\ pc = "error"
    /\ pos = 4
    /\ input[3].kind = "json"
    /\ input[3].operation = "restart"
    /\ pos + 2 <= Len(input)
    /\ Len(Output) = 1
    /\ \A i \in DOMAIN calls : calls[i].hook = "init" /\ calls[i].result = "Success"

-----------------------------------------------------------------------------
(* C13: the exchange of headers *)

\* The first line of the input is a header of the protocol version of the
\* executor
PeerHeaderAccepted ==
    /\ input[1].kind = "header"
    /\ input[1].version = ProtocolVersion

\* C13: the header of the executor is written once, as the first thing
\* written, and only after the header of the peer has been read, parsed and
\* found compatible; no record is read and no hook is called before it is
\* written; after a peer header that does not parse or is not compatible the
\* run has ended with an error, nothing written, no hook called and no
\* record read.
C13_HeaderExchangeOnceAndFirst ==
    /\ \A k \in DOMAIN Output : (Output[k].payload = my_header) <=> (k = 1)
    /\ written # <<>> => written[1] = write_line(my_header)
    /\ Output # <<>> => (pos >= 2 /\ PeerHeaderAccepted)
    /\ (pos > 2 \/ calls # <<>>) => Output # <<>>
    /\ (pc # "start" /\ read_line(input, 0).status = "ok" /\ ~PeerHeaderAccepted)
          => (pc = "error" /\ written = <<>> /\ calls = <<>> /\ pos = 2)

\* After the exchange a header line of the peer's has been read again, as a
\* record: the run has ended on it and the output holds one header only.
C13_Witness ==
    /\ PeerHeaderAccepted
    /\ pos = 4
    /\ input[3].kind = "header"
    /\ pc = "error"
    /\ Len(Output) = 1
    /\ Output[1].payload = my_header

-----------------------------------------------------------------------------
(* C14: one response for each request, in the order of the requests *)

\* C14: the output never holds more responses than records have been read;
\* whenever the loop is about to read a record, and when the run has ended
\* on terminate, it holds exactly one response for each record read; the
\* k-th response has the operation of the k-th record of the input.
C14_HalfDuplex ==
    /\ Len(Output) <= pos \div 2
    /\ pc \in {"loop", "done"} => Len(Output) = pos \div 2
    /\ \A k \in 2..Len(Output) :
          /\ input[2 * k - 1].kind = "json"
          /\ Output[k].payload.operation = input[2 * k - 1].operation

\* Two requests have been read, an evaluate and then a validate, and the
\* output holds the header, an evaluate response and a validate response,
\* with the loop about to read again.
C14_Witness ==
    /\ pc = "loop"
    /\ pos = 6
    /\ IsEvaluateRequest(input[3])
    /\ IsValidateRequest(input[5])
    /\ Len(Output) = 3
    /\ Output[2].payload.operation = "evaluate_promise"
    /\ Output[3].payload.operation = "validate_promise"

-----------------------------------------------------------------------------
(* C15: the outcomes of a promise do not end the run *)

ValidateProjection(tag) ==
    CASE tag = "Valid" -> "valid"
      [] tag = "Invalid" -> "invalid"
      [] tag = "Error" -> "error"

\* The projection of the result of the hook called last in an evaluate step
LastProjection(c) ==
    IF c.hook = "check" THEN CheckProjection(c.result) ELSE ApplyProjection(c.result)

\* The calls of hook in the step whose result is one of tags
Unhappy(hook, tags) ==
    SelectSeq(NewCalls, LAMBDA c : c.hook = hook /\ c.result \in tags)

\* C15: a step in which validate returns Invalid or Error writes the validate
\* response carrying invalid or error and leaves the loop running; a step in
\* which check or apply returns NotKept or Error writes the evaluate response
\* carrying the outcome of the hook called last and leaves the loop running.
C15_DomainOutcomesContinue ==
    [][/\ Unhappy("validate", {"Invalid", "Error"}) # <<>>
             => /\ Responds("validate_promise",
                            ValidateProjection(NewCalls[Len(NewCalls)].result))
                /\ pc' = "loop"
                /\ pos' = pos + 2
       /\ Unhappy("check", {"NotKept", "Error"}) \o Unhappy("apply", {"NotKept", "Error"})
             # <<>>
             => /\ Responds("evaluate_promise", LastProjection(NewCalls[Len(NewCalls)]))
                /\ pc' = "loop"
                /\ pos' = pos + 2]_vars

\* A validate that returned Error was answered with error, and the record
\* after it has been read and answered too.
C15_Witness ==
    /\ pc = "loop"
    /\ pos = 6
    /\ \E i \in DOMAIN calls :
          calls[i].hook = "validate" /\ calls[i].at = 4 /\ calls[i].result = "Error"
    /\ Len(Output) = 3
    /\ Output[2].payload.result = "error"

-----------------------------------------------------------------------------
(* C16: the stream of the log lines *)

\* C16: in a run over the standard streams, the stream that carries the
\* records holds the header and the responses only, and no log line.
C16_LogsOffRecordStream ==
    \A k \in DOMAIN StdoutUnderRun : StdoutUnderRun[k].kind = "record"

-----------------------------------------------------------------------------
(* C17: the log threshold and the requests *)

\* The log lines the step prints
NewLogs ==
    SelectSeq(SubSeq(written', Len(written) + 1, Len(written')),
              LAMBDA e : e.kind = "log")

\* C17: in a step that handles a validate or an evaluate request, validate,
\* check and apply are called with the threshold at the log_level of the
\* request, and the log lines of the step are those that level lets pass: a
\* validate that returns Invalid or Error prints a line unless the level is
\* critical.  A terminate step leaves the threshold as it is and calls the
\* hook under it.  No step other than one that answers a validate or an
\* evaluate request changes the threshold, so that it stays at the level of
\* the last such request.
C17_ThresholdFromRequest ==
    [][/\ RequestStep
            => LET lvl == LevelAsUsize(read_line(input, pos).line.log_level)
               IN  /\ \A i \in DOMAIN NewCalls :
                          NewCalls[i].hook # "init" => NewCalls[i].threshold = lvl
                   /\ \A i \in DOMAIN NewLogs : LevelAsUsize(NewLogs[i].level) <= lvl
                   /\ Unhappy("validate", {"Invalid", "Error"}) # <<>>
                         => (NewLogs # <<>> <=> lvl >= LevelAsUsize("error"))
                   /\ NewRecords # <<>> => max_level' = lvl
       /\ HooksIn(NewCalls, "terminate") # <<>>
            => /\ max_level' = max_level
               /\ NewCalls[Len(NewCalls)].threshold = max_level
       /\ ~(RequestStep /\ NewRecords # <<>>) => max_level' = max_level]_vars

\* A request asked for the level info when the threshold was critical, and
\* the terminate request after it was handled under info: its hook returned
\* Failure and the reason was printed at error.
C17_Witness ==
    /\ pc = "done"
    /\ pos = 6
    /\ input[3].log_level = "info"
    /\ max_level = LevelAsUsize("info")
    /\ calls[Len(calls)].hook = "terminate"
    /\ calls[Len(calls)].result = "Failure"
    /\ calls[Len(calls)].threshold = LevelAsUsize("info")
    /\ written[Len(written) - 1].kind = "log"
    /\ written[Len(written) - 1].level = "error"

-----------------------------------------------------------------------------
(* C18: which messages the threshold lets pass *)

\* The ranking of the severities, the most severe highest
Severity(name) ==
    CASE name = "critical" -> 7
      [] name = "error" -> 6
      [] name = "warning" -> 5
      [] name = "notice" -> 4
      [] name = "info" -> 3
      [] name = "verbose" -> 2
      [] name = "debug" -> 1

\* C18: a use of log! with a message of severity s prints the line
\* log_<s>=<message>, and only it, if s is at least as severe as the
\* threshold, and writes nothing if s is less severe than the threshold.
C18_GateBySeverity ==
    [][Len(calls') = Len(calls) + 1 /\ calls'[Len(calls')].hook = "log"
          => LET s == calls'[Len(calls')].result
                 t == LevelNames[max_level + 1]
             IN  IF Severity(s) >= Severity(t)
                 THEN written' = Append(written,
                                        [stream |-> "stdout", kind |-> "log",
                                         level |-> s, msg |-> Reason])
                 ELSE written' = written]_vars

\* Under the threshold error a message at info was dropped and a message at
\* error was printed.
C18_Witness ==
    /\ pc = "gate"
    /\ calls = <<LogAttempt("info", LevelAsUsize("error")),
                 LogAttempt("error", LevelAsUsize("error"))>>
    /\ Len(written) = 1
    /\ written[1].level = "error"

-----------------------------------------------------------------------------
(* C19: the severity of the reasons *)

\* What is printed for a message at severity s under the threshold of the
\* request read in the step
Passed(s, msg) ==
    IF Severity(s) >= Severity(read_line(input, pos).line.log_level)
    THEN <<[stream |-> "stdout", kind |-> "log", level |-> s, msg |-> msg]>>
    ELSE <<>>

\* The severity the reason of a check result is to be logged at
CheckSeverity(result, is_check_only) ==
    IF result = "NotKept" /\ ~is_check_only THEN "info" ELSE "error"

\* The log lines of the step are those in ls, then at most one line more,
\* and none more unless apply was called and did not return Kept
LogsBeginWith(ls) ==
    /\ Len(NewLogs) >= Len(ls)
    /\ SubSeq(NewLogs, 1, Len(ls)) = ls
    /\ Len(NewLogs) <= Len(ls) + 1
    /\ Len(NewLogs) > Len(ls)
          => \E i \in DOMAIN NewCalls :
                NewCalls[i].hook = "apply" /\ NewCalls[i].result # "Kept"

Logs == SelectSeq(written, LAMBDA e : e.kind = "log")

-----------------------------------------------------------------------------
(* C20: what a response repeats of its request *)

\* C20: the response a step writes to a validate or an evaluate request
\* carries the promiser and the attribute map of the request as they were
\* read; the result of a validate response is valid, invalid or error for
\* a hook result of Valid, Invalid or Error, and the result of an evaluate
\* response is the projection of the result of the hook called last; the
\* input is left as it is.
C20_ResponseEchoesRequest ==
    [][(RequestStep /\ NewRecords # <<>>)
          => LET req == read_line(input, pos).line
                 rsp == NewRecords[1].payload
                 last == NewCalls[Len(NewCalls)]
             IN  /\ Len(NewRecords) = 1
                 /\ rsp.promiser = req.promiser
                 /\ rsp.attributes = req.attributes
                 /\ rsp.operation = req.operation
                 /\ IsValidateRequest(req)
                       => last.hook = "validate"
                          /\ rsp.result = ValidateProjection(last.result)
                 /\ IsEvaluateRequest(req)
                       => last.hook \in {"check", "apply"}
                          /\ rsp.result = LastProjection(last)
                 /\ input' = input]_vars

\* A validate request for one promiser with action_policy was answered
\* invalid, then an evaluate request for another promiser without it was
\* answered, each response with the promiser and the map of its request.
C20_Witness ==
    /\ pos = 6
    /\ Len(Output) = 3
    /\ IsValidateRequest(input[3])
    /\ input[3].promiser = OtherPromiser
    /\ Output[2].payload = [operation |-> "validate_promise", promiser |-> OtherPromiser,
                            result |-> "invalid", attributes |-> AttrsAudit]
    /\ IsEvaluateRequest(input[5])
    /\ Output[3].payload.promiser = Promiser
    /\ Output[3].payload.attributes = AttrsPresent

-----------------------------------------------------------------------------
(* C21: the framing of a record that is read *)

\* The step reads a record, the header or a request, with both of its lines
\* in the input
ReadsRecord ==
    /\ pc \in {"start", "loop"}
    /\ Len(input) >= pos + 2

-----------------------------------------------------------------------------
(* C22: the framing of a record that is written *)

\* C22: every record in the output, the header and each response, is its
\* payload followed by two newline characters and was flushed when written;
\* whenever the loop is about to read a record, the last thing written is
\* such a record, and the output holds one for every record read.
C22_FramingOfWrite ==
    /\ \A k \in DOMAIN Output :
          /\ Output[k].kind = "record"
          /\ Output[k].newlines = "\n\n"
          /\ Output[k].flushed
    /\ pc = "loop"
          => /\ written[Len(written)].stream = "output"
             /\ written[Len(written)].flushed
             /\ 2 * Len(Output) = pos

\* The header and the response to an evaluate request have been written,
\* each with its two newlines and flushed, and the loop is about to read.
C22_Witness ==
    /\ pc = "loop"
    /\ pos = 4
    /\ Len(Output) = 2
    /\ Output[1] = [stream |-> "output", kind |-> "record", payload |-> my_header,
                    newlines |-> "\n\n", flushed |-> TRUE]
    /\ Output[2].payload.operation = "evaluate_promise"
    /\ Output[2].newlines = "\n\n"
    /\ Output[2].flushed

-----------------------------------------------------------------------------
(* C23: a header written and read again *)

\* A text that is not empty and has no space
IsToken(text) == text # <<>> /\ \A i \in DOMAIN text : text[i] # Space

\* The step parses the line a header was written as
Decodes == pc = "encoded" /\ pc' = "decoded"

-----------------------------------------------------------------------------
(* C24: what apply follows *)

\* C24: a call of apply is preceded, in the step of the same evaluate
\* request, by a call of check that reported AlwaysApply or NotKept; apply
\* is not called in a step in which check reported Kept or Error.
C24_ApplyOnlyOnDrift ==
    [][\A i \in DOMAIN NewCalls :
          NewCalls[i].hook = "apply"
             => /\ i > 1
                /\ NewCalls[i - 1].hook = "check"
                /\ NewCalls[i - 1].result \in {"AlwaysApply", "NotKept"}]_vars

-----------------------------------------------------------------------------
(* C25: what makes an evaluate request check-only *)

\* C25: in a step that handles an evaluate request whose attribute map has
\* the key action_policy, whatever its value, apply is not called and the
\* response carries the outcome of check; in one whose map has not the key,
\* apply is called unless check reported Kept, and the response carries the
\* outcome of the hook called last.
C25_CheckOnlyIffActionPolicy ==
    [][(EvaluateStep /\ HooksIn(NewCalls, "check") # <<>>)
          => LET chk == HooksIn(NewCalls, "check")[1]
             IN  /\ "action_policy" \in DOMAIN CurrentAttributes
                       => /\ HooksIn(NewCalls, "apply") = <<>>
                          /\ Responds("evaluate_promise", CheckProjection(chk.result))
                 /\ "action_policy" \notin DOMAIN CurrentAttributes
                       => /\ Len(HooksIn(NewCalls, "apply"))
                               = (IF chk.result = "Kept" THEN 0 ELSE 1)
                          /\ Responds("evaluate_promise",
                                      LastProjection(NewCalls[Len(NewCalls)]))]_vars

\* An evaluate request with action_policy at "fix" was handled as check-only:
\* check reported NotKept, apply was not called and the response is not_kept.
C25_Witness ==
    /\ pos = 4
    /\ pc = "loop"
    /\ IsEvaluateRequest(input[3])
    /\ "action_policy" \in DOMAIN input[3].attributes
    /\ input[3].attributes["action_policy"] = Str("fix")
    /\ Len(calls) = 2
    /\ calls[2].hook = "check"
    /\ calls[2].result = "NotKept"
    /\ Output[2].payload.result = "not_kept"

-----------------------------------------------------------------------------
(* C26: the hooks a promise type does not define *)

\* C26: in a step that handles an evaluate request in which apply, where
\* called, returns what the default apply returns: a request without
\* action_policy whose check does not report Kept is answered error; if
\* check returns what the default check returns as well, a request without
\* action_policy is answered error and one with it not_kept.
C26_DefaultHooks ==
    [][(/\ EvaluateStep
        /\ HooksIn(NewCalls, "check") # <<>>
        /\ \A i \in DOMAIN NewCalls :
              NewCalls[i].hook = "apply" => NewCalls[i].result = DefaultApply.tag)
          => LET chk == HooksIn(NewCalls, "check")[1].result
                 audit == "action_policy" \in DOMAIN CurrentAttributes
             IN  /\ (~audit /\ chk # "Kept") => Responds("evaluate_promise", "error")
                 /\ chk = DefaultCheck.tag
                       => Responds("evaluate_promise",
                                   IF audit THEN "not_kept" ELSE "error")]_vars

\* With check returning AlwaysApply and apply AuditOnly, an evaluate request
\* without action_policy was answered error and one with it not_kept.
C26_Witness ==
    /\ pos = 6
    /\ pc = "loop"
    /\ IsEvaluateRequest(input[3]) /\ "action_policy" \notin DOMAIN input[3].attributes
    /\ IsEvaluateRequest(input[5]) /\ "action_policy" \in DOMAIN input[5].attributes
    /\ Len(calls) = 4
    /\ calls[2].hook = "check" /\ calls[2].result = "AlwaysApply"
    /\ calls[3].hook = "apply" /\ calls[3].result = "AuditOnly"
    /\ calls[4].hook = "check" /\ calls[4].result = "AlwaysApply"
    /\ Output[2].payload.result = "error"
    /\ Output[3].payload.result = "not_kept"

-----------------------------------------------------------------------------
(* C27: the end of the input *)

\* The positions of the terminate requests of the input that have their
\* empty line after them
TerminateRequests ==
    {k \in 3..Len(input) :
        k % 2 = 1 /\ k + 1 <= Len(input) /\ IsTerminateRequest(input[k])}

\* C27: the run has returned Ok only if the last record read is a terminate
\* request, the terminate hook was called and the last record written is
\* the terminate response; the terminate hook is called and a terminate
\* response written only for a terminate request of the input; when the
\* input ends before one, the run panics at the end of the input.
C27_SuccessOnlyAfterTerminate ==
    /\ pc = "done"
          => /\ pos - 1 \in TerminateRequests
             /\ Terminated
             /\ Output[Len(Output)].payload.operation = "terminate"
    /\ TerminateRequests = {}
          => /\ pc # "done"
             /\ ~Terminated
             /\ \A k \in 2..Len(Output) : Output[k].payload.operation # "terminate"
    /\ pc = "panic" => (pos = Len(input) /\ ~Terminated)

\* The input ended after the response to a request that is not terminate:
\* the run has panicked on the read, with no call of terminate.
C27_Witness ==
    /\ pc = "panic"
    /\ Len(input) = 4
    /\ pos = 4
    /\ IsEvaluateRequest(input[3])
    /\ Len(Output) = 2
    /\ ~Terminated

====
